---- MODULE Spec2Model ----
(***************************************************************************)
(* The snake game core (packages/game-core): createInitialState,           *)
(* changeDirection, step and spawnFood, driven by an arbitrary caller,     *)
(* and the SnakeCanvas component of apps/web that hosts it.                *)
(*                                                                         *)
(* A GameState is a record; a Point is a record [x, y]; a snake is a       *)
(* sequence of Points whose head is element 1 (index 0 of the source).     *)
(* spawnFood draws from Math.random, so every operation that calls it is   *)
(* modelled by the SET of states it can return.                            *)
(***************************************************************************)
EXTENDS Integers, Sequences, FiniteSets, TLC

VARIABLES config, state, call, isPaused, intervalRef, effectPending

vars == <<config, state, call, isPaused, intervalRef, effectPending>>

\* The state of the component that hosts the game (SnakeCanvas).
hostVars == <<isPaused, intervalRef, effectPending>>

\* The core called directly, without the component: no interval, no pause.
NoHost == isPaused = FALSE /\ intervalRef = "null" /\ effectPending = FALSE

(***************************************************************************)
(* Bounds of the model.                                                    *)
(***************************************************************************)
MaxCols == 4
MaxRows == 3
MaxInitialLength == 3
MaxTick == 3
MaxSnake == 4
MaxTurns == 3

(***************************************************************************)
(* Types.                                                                  *)
(***************************************************************************)
Direction == {"up", "down", "left", "right"}

Point(px, py) == [x |-> px, y |-> py]

\* GameConfig: initialLength and wrap are optional fields.
GameConfig ==
    LET bare == [cols : 1..MaxCols, rows : 1..MaxRows]
        withWrap == [cols : 1..MaxCols, rows : 1..MaxRows, wrap : BOOLEAN]
        withLen == [cols : 1..MaxCols, rows : 1..MaxRows,
                    initialLength : 2..MaxInitialLength]
        withBoth == [cols : 1..MaxCols, rows : 1..MaxRows, wrap : BOOLEAN,
                     initialLength : 2..MaxInitialLength]
    IN  bare \cup withWrap \cup withLen \cup withBoth

\* config.wrap used as a condition: an absent field is undefined, which is falsy.
wrapOf(cfg) == IF "wrap" \in DOMAIN cfg THEN cfg.wrap ELSE FALSE

\* Mutant: the initialLength of the config is ignored.
initialLengthIgnored(cfg) == 4

\* config.initialLength ?? 4
initialLengthOf(cfg) == IF "initialLength" \in DOMAIN cfg THEN cfg.initialLength ELSE 4

\* Math.max
Max(a, b) == IF a >= b THEN a ELSE b

\* The % of JavaScript: the remainder takes the sign of the dividend.
JsRem(a, b) == IF a >= 0 THEN a % b ELSE -((-a) % b)

\* Mutant: one entry of the table is mistyped.
oppositeMistyped == [up |-> "down", down |-> "up", left |-> "right", right |-> "right"]

opposite == [up |-> "down", down |-> "up", left |-> "right", right |-> "left"]

(***************************************************************************)
(* spawnFood                                                               *)
(***************************************************************************)
\* The key `${p.x},${p.y}` of a cell in the occupied set.
key(p) == <<p.x, p.y>>

occupiedKeys(snake) == {key(snake[i]) : i \in 1..Len(snake)}

\* The cells the two nested loops visit, in their order (y outer, x inner).
gridCells(cfg) ==
    [k \in 1..(cfg.rows * cfg.cols) |->
        Point((k - 1) % cfg.cols, (k - 1) \div cfg.cols)]

\* Mutant: the occupied cells are not excluded.
freeCellsIgnoringSnake(cfg, snake) == gridCells(cfg)

freeCells(cfg, snake) ==
    LET occupied == occupiedKeys(snake)
        isFree(p) == key(p) \notin occupied
    IN  SelectSeq(gridCells(cfg), isFree)

\* Mutant: the index is not random, the first free cell is always taken.
spawnFoodFirstFree(cfg, snake) ==
    LET cells == freeCells(cfg, snake)
    IN  IF Len(cells) = 0
        THEN {Point(-1, -1)}
        ELSE {cells[1]}

\* Mutant: a full board gives the placeholder (0,0) and not (-1,-1).
spawnFoodWithoutSentinel(cfg, snake) ==
    LET cells == freeCells(cfg, snake)
    IN  IF Len(cells) = 0
        THEN {Point(0, 0)}
        ELSE {cells[idx + 1] : idx \in 0..(Len(cells) - 1)}

\* Every cell spawnFood can return: idx = floor(random * length) is any index.
spawnFood(cfg, snake) ==
    LET cells == freeCells(cfg, snake)
    IN  IF Len(cells) = 0
        THEN {Point(-1, -1)}
        ELSE {cells[idx + 1] : idx \in 0..(Len(cells) - 1)}

(***************************************************************************)
(* createInitialState                                                      *)
(***************************************************************************)
\* Mutant: the start cell is rounded up, not down.
initialSnakeRoundedUp(cfg) ==
    LET length == Max(3, initialLengthOf(cfg))
        startX == (cfg.cols + 1) \div 2
        startY == (cfg.rows + 1) \div 2
    IN  [i \in 1..length |-> Point(startX - (i - 1), startY)]

\* Mutant: the length is not clamped to 3.
initialSnakeUnclamped(cfg) ==
    LET length == initialLengthOf(cfg)
        startX == cfg.cols \div 2
        startY == cfg.rows \div 2
    IN  [i \in 1..length |-> Point(startX - (i - 1), startY)]

\* Mutant: the body extends to the right of the head.
initialSnakeTowardsRight(cfg) ==
    LET length == Max(3, initialLengthOf(cfg))
        startX == cfg.cols \div 2
        startY == cfg.rows \div 2
    IN  [i \in 1..length |-> Point(startX + (i - 1), startY)]

initialSnake(cfg) ==
    LET length == Max(3, initialLengthOf(cfg))
        startX == cfg.cols \div 2
        startY == cfg.rows \div 2
    IN  [i \in 1..length |-> Point(startX - (i - 1), startY)]

\* Mutant: the first food is any cell of the grid, the snake's cells included.
createInitialStateFoodAnywhere(cfg) ==
    {[snake |-> initialSnake(cfg),
      direction |-> "right",
      food |-> gridCells(cfg)[k],
      score |-> 0,
      isGameOver |-> FALSE,
      tick |-> 0] : k \in 1..(cfg.rows * cfg.cols)}

createInitialState(cfg) ==
    {[snake |-> initialSnake(cfg),
      direction |-> "right",
      food |-> f,
      score |-> 0,
      isGameOver |-> FALSE,
      tick |-> 0] : f \in spawnFood(cfg, initialSnake(cfg))}

(***************************************************************************)
(* changeDirection                                                         *)
(***************************************************************************)
\* Mutant: a turn is only taken while the game runs.
changeDirectionWhileActive(st, dir) ==
    IF st.isGameOver \/ opposite[st.direction] = dir
    THEN st
    ELSE [st EXCEPT !.direction = dir]

\* Mutant: a turn back is taken by turning the snake around.
changeDirectionTurningAround(st, dir) ==
    IF opposite[st.direction] = dir
    THEN [st EXCEPT !.snake = [i \in 1..Len(st.snake) |-> st.snake[Len(st.snake) + 1 - i]]]
    ELSE [st EXCEPT !.direction = dir]

changeDirection(st, dir) ==
    IF opposite[st.direction] = dir
    THEN st
    ELSE [st EXCEPT !.direction = dir]

(***************************************************************************)
(* step                                                                    *)
(***************************************************************************)
\* Mutant: the wrap takes the remainder without adding the axis size first.
candidateHeadBareRemainder(cfg, st) ==
    LET head == st.snake[1]
        nx0 == CASE st.direction = "left" -> head.x - 1
                 [] st.direction = "right" -> head.x + 1
                 [] OTHER -> head.x
        ny0 == CASE st.direction = "up" -> head.y - 1
                 [] st.direction = "down" -> head.y + 1
                 [] OTHER -> head.y
    IN  IF wrapOf(cfg)
        THEN Point(JsRem(nx0, cfg.cols), JsRem(ny0, cfg.rows))
        ELSE Point(nx0, ny0)

\* The head moved one cell in state.direction, wrapped when config.wrap.
candidateHead(cfg, st) ==
    LET head == st.snake[1]
        nx0 == CASE st.direction = "left" -> head.x - 1
                 [] st.direction = "right" -> head.x + 1
                 [] OTHER -> head.x
        ny0 == CASE st.direction = "up" -> head.y - 1
                 [] st.direction = "down" -> head.y + 1
                 [] OTHER -> head.y
    IN  IF wrapOf(cfg)
        THEN Point(JsRem(nx0 + cfg.cols, cfg.cols), JsRem(ny0 + cfg.rows, cfg.rows))
        ELSE Point(nx0, ny0)

\* Mutant: the far walls are one cell too far.
wallCollisionOffByOne(cfg, p) ==
    ~wrapOf(cfg) /\ (p.x < 0 \/ p.y < 0 \/ p.x > cfg.cols \/ p.y > cfg.rows)

\* Mutant: only the far walls are checked.
wallCollisionFarWallsOnly(cfg, p) ==
    ~wrapOf(cfg) /\ (p.x >= cfg.cols \/ p.y >= cfg.rows)

\* Mutant: only the side walls are checked.
wallCollisionSideWallsOnly(cfg, p) ==
    ~wrapOf(cfg) /\ (p.x < 0 \/ p.x >= cfg.cols)

wallCollision(cfg, p) ==
    ~wrapOf(cfg) /\ (p.x < 0 \/ p.y < 0 \/ p.x >= cfg.cols \/ p.y >= cfg.rows)

willEat(st, newHead) == newHead.x = st.food.x /\ newHead.y = st.food.y

\* Mutant: the tail cell is checked on every step.
bodyToCheckWithTail(st, eats) == st.snake

\* state.snake.slice(0, -1) drops the last cell.
bodyToCheck(st, eats) ==
    IF eats THEN st.snake ELSE SubSeq(st.snake, 1, Len(st.snake) - 1)

\* Mutant: the y of the candidate is compared with the x of the cell.
selfCollisionMistyped(body, newHead) ==
    \E i \in 1..Len(body) : body[i].x = newHead.x /\ body[i].x = newHead.y

selfCollision(body, newHead) ==
    \E i \in 1..Len(body) : body[i].x = newHead.x /\ body[i].y = newHead.y

\* Mutant: the tail is never popped.
newSnakeNeverPopped(st, newHead, eats) == <<newHead>> \o st.snake

\* Mutant: the old head is dropped, not the tail.
newSnakeDroppingHead(st, newHead, eats) ==
    IF eats THEN <<newHead>> \o st.snake ELSE <<newHead>> \o Tail(st.snake)

\* [newHead, ...state.snake], popped when the step does not eat.
newSnake(st, newHead, eats) ==
    LET grown == <<newHead>> \o st.snake
    IN  IF eats THEN grown ELSE SubSeq(grown, 1, Len(grown) - 1)

\* Mutant: the fatal tick is counted.
gameOverCountingTick(st) == [st EXCEPT !.isGameOver = TRUE, !.tick = st.tick + 1]

gameOver(st) == [st EXCEPT !.isGameOver = TRUE]

\* Mutant: every tick that moves the snake scores.
advanceScoringEveryTick(cfg, st) ==
    LET newHead == candidateHead(cfg, st)
        eats == willEat(st, newHead)
        moved == newSnake(st, newHead, eats)
    IN  IF wallCollision(cfg, newHead) THEN {gameOver(st)}
        ELSE IF selfCollision(bodyToCheck(st, eats), newHead) THEN {gameOver(st)}
        ELSE IF eats
             THEN {[st EXCEPT !.snake = moved, !.food = f,
                              !.score = st.score + 10, !.tick = st.tick + 1] :
                      f \in spawnFood(cfg, moved)}
             ELSE {[st EXCEPT !.snake = moved, !.score = st.score + 10,
                              !.tick = st.tick + 1]}

\* Mutant: the new food is placed around the old snake, not the new one.
advanceSpawningAroundOldSnake(cfg, st) ==
    LET newHead == candidateHead(cfg, st)
        eats == willEat(st, newHead)
        moved == newSnake(st, newHead, eats)
    IN  IF wallCollision(cfg, newHead) THEN {gameOver(st)}
        ELSE IF selfCollision(bodyToCheck(st, eats), newHead) THEN {gameOver(st)}
        ELSE IF eats
             THEN {[st EXCEPT !.snake = moved, !.food = f,
                              !.score = st.score + 10, !.tick = st.tick + 1] :
                      f \in spawnFood(cfg, st.snake)}
             ELSE {[st EXCEPT !.snake = moved, !.tick = st.tick + 1]}

\* Mutant: the food is drawn again on every tick.
advanceSpawningEveryTick(cfg, st) ==
    LET newHead == candidateHead(cfg, st)
        eats == willEat(st, newHead)
        moved == newSnake(st, newHead, eats)
    IN  IF wallCollision(cfg, newHead) THEN {gameOver(st)}
        ELSE IF selfCollision(bodyToCheck(st, eats), newHead) THEN {gameOver(st)}
        ELSE {[st EXCEPT !.snake = moved, !.food = f,
                         !.score = IF eats THEN st.score + 10 ELSE st.score,
                         !.tick = st.tick + 1] :
                 f \in spawnFood(cfg, moved)}

\* Lines 36-80 of step: what it does with a state that is not terminal.
advance(cfg, st) ==
    LET newHead == candidateHead(cfg, st)
        eats == willEat(st, newHead)
        moved == newSnake(st, newHead, eats)
    IN  IF wallCollision(cfg, newHead) THEN {gameOver(st)}
        ELSE IF selfCollision(bodyToCheck(st, eats), newHead) THEN {gameOver(st)}
        ELSE IF eats
             THEN {[st EXCEPT !.snake = moved, !.food = f,
                              !.score = st.score + 10, !.tick = st.tick + 1] :
                      f \in spawnFood(cfg, moved)}
             ELSE {[st EXCEPT !.snake = moved, !.tick = st.tick + 1]}

\* Mutant: step without its check of isGameOver.
stepWithoutTerminalCheck(cfg, st) == advance(cfg, st)

step(cfg, st) ==
    IF st.isGameOver THEN {st} ELSE advance(cfg, st)

(***************************************************************************)
(* The caller: any sequence of changeDirection and step calls on the state *)
(* createInitialState returned.  call records the last call made: its      *)
(* name, the direction passed (for changeDirection) and the state it was   *)
(* given.                                                                  *)
(***************************************************************************)
Init ==
    /\ NoHost
    /\ config \in GameConfig
    /\ state \in createInitialState(config)
    /\ call = [op |-> "createInitialState", dir |-> "right", pre |-> state]

ChangeDirection(dir) ==
    /\ state' = changeDirection(state, dir)
    /\ call' = [op |-> "changeDirection", dir |-> dir, pre |-> state]
    /\ UNCHANGED <<config, hostVars>>

Step ==
    /\ state.isGameOver \/ state.tick < MaxTick
    /\ state' \in step(config, state)
    /\ call' = [op |-> "step", dir |-> state.direction, pre |-> state]
    /\ UNCHANGED <<config, hostVars>>

Next ==
    \/ \E dir \in Direction : ChangeDirection(dir)
    \/ Step

Spec == Init /\ [][Next]_vars

(***************************************************************************)
(* step as a pure function of (config, state): step is exported and takes  *)
(* any GameState a caller builds.  StepSpec applies it to every state of   *)
(* the largest board whose snake is a path of 3 to MaxSnake distinct,      *)
(* adjacent board cells, with any direction and with the food on any board *)
(* cell, under the snake included, or the sentinel.                        *)
(***************************************************************************)
boardCells(cfg) == {gridCells(cfg)[k] : k \in 1..Len(gridCells(cfg))}

adjacent(p, q) ==
    \/ p.x = q.x /\ (p.y = q.y + 1 \/ q.y = p.y + 1)
    \/ p.y = q.y /\ (p.x = q.x + 1 \/ q.x = p.x + 1)

RECURSIVE snakesOfLength(_, _)
snakesOfLength(cfg, n) ==
    IF n = 1
    THEN {<<p>> : p \in boardCells(cfg)}
    ELSE UNION {{Append(s, q) : q \in {c \in boardCells(cfg) :
                                          /\ adjacent(s[Len(s)], c)
                                          /\ \A i \in 1..Len(s) : s[i] # c}} :
                   s \in snakesOfLength(cfg, n - 1)}

StepInit ==
    /\ NoHost
    /\ config \in [cols : {MaxCols}, rows : {MaxRows}, wrap : BOOLEAN]
    /\ \E n \in 3..MaxSnake :
          state \in [snake : snakesOfLength(config, n),
                     direction : Direction,
                     food : boardCells(config) \cup {Point(-1, -1)},
                     score : {0},
                     isGameOver : {FALSE},
                     tick : {0}]
    /\ call = [op |-> "input", dir |-> state.direction, pre |-> state]

StepSpec == StepInit /\ [][Step]_vars

(***************************************************************************)
(* The tight loop on the host's board: 12 x 12, no wrap, initialLength 5.  *)
(* The caller sets one direction per tick (down, left, up) and steps after *)
(* each.                                                                   *)
(***************************************************************************)
hostConfig == [cols |-> 12, rows |-> 12, wrap |-> FALSE, initialLength |-> 5]

loopDirection(tick) ==
    CASE tick = 0 -> "down"
      [] tick = 1 -> "left"
      [] OTHER -> "up"

LoopInit ==
    /\ NoHost
    /\ config = hostConfig
    /\ state \in createInitialState(config)
    /\ call = [op |-> "createInitialState", dir |-> "right", pre |-> state]

LoopTurn ==
    /\ call.op \in {"createInitialState", "step"}
    /\ ~state.isGameOver
    /\ state.tick < 3
    /\ ChangeDirection(loopDirection(state.tick))

LoopStep ==
    /\ call.op = "changeDirection"
    /\ Step

LoopNext == LoopTurn \/ LoopStep

LoopSpec == LoopInit /\ [][LoopNext]_vars

(***************************************************************************)
(* createInitialState as a function of the config: every config of         *)
(* GameConfig and the host's, followed by steps in the initial direction.  *)
(***************************************************************************)
CreateInit ==
    /\ NoHost
    /\ config \in GameConfig \cup {hostConfig}
    /\ state \in createInitialState(config)
    /\ call = [op |-> "createInitialState", dir |-> "right", pre |-> state]

CreateSpec == CreateInit /\ [][Step]_vars

(***************************************************************************)
(* Input events between two ticks: up to MaxTurns changeDirection calls    *)
(* between two consecutive steps, on the largest board.  Here call also    *)
(* records the interval since the last step (or since createInitialState): *)
(* from is the direction the state held when the interval began, turns the *)
(* directions requested in it, in order.  The caller stops at game over.   *)
(***************************************************************************)
turnsSoFar == IF call.op = "changeDirection" THEN call.turns ELSE <<>>

heldBefore == IF call.op = "changeDirection" THEN call.from ELSE state.direction

TurnsInit ==
    /\ NoHost
    /\ config \in [cols : {MaxCols}, rows : {MaxRows}, wrap : BOOLEAN]
    /\ state \in createInitialState(config)
    /\ call = [op |-> "createInitialState", dir |-> "right", pre |-> state,
               from |-> state.direction, turns |-> <<>>]

TurnsChange(dir) ==
    /\ ~state.isGameOver
    /\ Len(turnsSoFar) < MaxTurns
    /\ state' = changeDirection(state, dir)
    /\ call' = [op |-> "changeDirection", dir |-> dir, pre |-> state,
                from |-> heldBefore, turns |-> Append(turnsSoFar, dir)]
    /\ UNCHANGED <<config, hostVars>>

TurnsStep ==
    /\ ~state.isGameOver
    /\ state.tick < MaxTick
    /\ state' \in step(config, state)
    /\ call' = [op |-> "step", dir |-> state.direction, pre |-> state,
                from |-> heldBefore, turns |-> turnsSoFar]
    /\ UNCHANGED <<config, hostVars>>

TurnsNext ==
    \/ \E dir \in Direction : TurnsChange(dir)
    \/ TurnsStep

TurnsSpec == TurnsInit /\ [][TurnsNext]_vars

(***************************************************************************)
(* The host: the SnakeCanvas component as App mounts it.  Its props cols,  *)
(* rows and wrap are config, with the initialLength 5 it adds; its React   *)
(* state is state and isPaused; intervalRef is "armed" while the interval  *)
(* of the game loop is set and "null" otherwise.                           *)
(* The game loop is a passive effect on [cols, rows, wrap, speed,          *)
(* isPaused]: React runs its cleanup and body some time after the render   *)
(* that changed a dependency was committed, and effectPending holds in     *)
(* between; the interval set before keeps firing until the cleanup clears  *)
(* it.  call records the last event and the isPaused and isGameOver it     *)
(* met.                                                                    *)
(* The props are drawn from boards far smaller than those App's sliders    *)
(* give (12 to 40 columns and rows), wide enough to hold the initial snake *)
(* of 5 cells as those do: the component takes any numbers as its props.   *)
(***************************************************************************)
MaxHostTick == 1

HostCols == {8, 10}

HostRows == {2}

HostConfig ==
    [cols : HostCols, rows : HostRows, wrap : BOOLEAN, initialLength : {5}]

HostInit ==
    /\ config \in HostConfig
    /\ state \in createInitialState(config)
    /\ isPaused = FALSE
    /\ intervalRef = "armed"
    /\ effectPending = FALSE
    /\ call = [op |-> "mount", paused |-> FALSE, over |-> FALSE]

\* The space key, or a new pauseSignal: setPaused(p => !p).
TogglePause ==
    /\ isPaused' = ~isPaused
    /\ effectPending' = TRUE
    /\ call' = [op |-> "pause", paused |-> isPaused, over |-> state.isGameOver]
    /\ UNCHANGED <<config, state, intervalRef>>

\* Mutant: a restart that leaves the paused flag as it is.
RestartKeepingPause ==
    /\ state' \in createInitialState(config)
    /\ call' = [op |-> "restart", paused |-> isPaused, over |-> state.isGameOver]
    /\ UNCHANGED <<config, hostVars>>

\* The R key, or a new restartSignal.
Restart ==
    /\ state' \in createInitialState(config)
    /\ isPaused' = FALSE
    /\ effectPending' = (effectPending \/ isPaused)
    /\ call' = [op |-> "restart", paused |-> isPaused, over |-> state.isGameOver]
    /\ UNCHANGED <<config, intervalRef>>

\* An arrow key or one of W, A, S, D.
KeyDirection(dir) ==
    /\ state' = changeDirection(state, dir)
    /\ call' = [op |-> "changeDirection", paused |-> isPaused,
                over |-> state.isGameOver]
    /\ UNCHANGED <<config, hostVars>>

\* The cols prop changes: the state is initialised again, isPaused is kept.
Resize(cols) ==
    /\ cols # config.cols
    /\ config' = [config EXCEPT !.cols = cols]
    /\ state' \in createInitialState(config')
    /\ effectPending' = TRUE
    /\ call' = [op |-> "resize", paused |-> isPaused, over |-> state.isGameOver]
    /\ UNCHANGED <<isPaused, intervalRef>>

\* The wrap prop changes: the state is kept.
SetWrap ==
    /\ config' = [config EXCEPT !.wrap = ~config.wrap]
    /\ effectPending' = TRUE
    /\ call' = [op |-> "wrap", paused |-> isPaused, over |-> state.isGameOver]
    /\ UNCHANGED <<state, isPaused, intervalRef>>

\* The game loop effect: clear the interval, then set it unless paused.
gameLoop(paused) == IF paused THEN "null" ELSE "armed"

GameLoopEffect ==
    /\ effectPending
    /\ intervalRef' = gameLoop(isPaused)
    /\ effectPending' = FALSE
    /\ UNCHANGED <<config, state, call, isPaused>>

\* The interval fires: setState(prev => step({ cols, rows, wrap }, prev)).
Tick ==
    /\ intervalRef = "armed"
    /\ state.isGameOver \/ state.tick < MaxHostTick
    /\ state' \in step(config, state)
    /\ call' = [op |-> "step", paused |-> isPaused, over |-> state.isGameOver]
    /\ UNCHANGED <<config, hostVars>>

HostNext ==
    \/ TogglePause
    \/ Restart
    \/ \E dir \in Direction : KeyDirection(dir)
    \/ \E cols \in HostCols : Resize(cols)
    \/ SetWrap
    \/ GameLoopEffect
    \/ Tick

HostSpec == HostInit /\ [][HostNext]_vars

\* React runs a pending effect, and an interval that is set fires.
HostLiveSpec == HostSpec /\ WF_vars(GameLoopEffect) /\ WF_vars(Tick)

(***************************************************************************)
(* Vocabulary of the properties, stated from the board's geometry and not  *)
(* from the operators above.                                               *)
(***************************************************************************)
pre == call.pre

\* The last call was step, on a state that was not terminal.
ActiveStep == call.op = "step" /\ ~pre.isGameOver

Vec(d) ==
    CASE d = "up" -> <<0, -1>>
      [] d = "down" -> <<0, 1>>
      [] d = "left" -> <<-1, 0>>
      [] d = "right" -> <<1, 0>>

Reverse(d) == CHOOSE e \in Direction : Vec(e)[1] = -Vec(d)[1] /\ Vec(e)[2] = -Vec(d)[2]

WrapEnabled == "wrap" \in DOMAIN config /\ config.wrap

OnBoard(p) == p.x \in 0..(config.cols - 1) /\ p.y \in 0..(config.rows - 1)

Cells(snake) == {snake[i] : i \in 1..Len(snake)}

Front(snake) == [i \in 1..(Len(snake) - 1) |-> snake[i]]

\* The head of st moved one cell in its direction, before any wrapping.
MovedHead(st) ==
    [x |-> st.snake[1].x + Vec(st.direction)[1],
     y |-> st.snake[1].y + Vec(st.direction)[2]]

\* The candidate head: the moved head, taken modulo the board when wrap is on.
Candidate(st) ==
    IF WrapEnabled
    THEN [x |-> (MovedHead(st).x + config.cols) % config.cols,
          y |-> (MovedHead(st).y + config.rows) % config.rows]
    ELSE MovedHead(st)

Sentinel == [x |-> -1, y |-> -1]

(***************************************************************************)
(* C1: no step ends the game because its candidate head is the segment     *)
(* directly behind the head (the neck, snake[1] of the source).  Stated    *)
(* where the claim is most favourable: on boards of three or more rows     *)
(* and columns that hold the whole snake, where the only way for the head  *)
(* to meet the neck is to turn back on it.                                 *)
(* The code violates it: two accepted turns between two steps reverse the  *)
(* direction (right -> up -> left), and the step then runs into the neck.  *)
(***************************************************************************)
C1_NoDeathByNeck ==
    (/\ ActiveStep
     /\ state.isGameOver
     /\ config.cols >= 3 /\ config.rows >= 3
     /\ \A p \in Cells(pre.snake) : OnBoard(p))
        => Candidate(pre) # pre.snake[2]

(***************************************************************************)
(* C2: the terminal state is absorbing: a step or changeDirection call on  *)
(* a state with isGameOver = TRUE leaves isGameOver TRUE and leaves snake, *)
(* food, score and tick as they were.                                      *)
(***************************************************************************)
C2_TerminalAbsorbing ==
    (call.op \in {"step", "changeDirection"} /\ pre.isGameOver)
        => /\ state.isGameOver
           /\ state.snake = pre.snake
           /\ state.food = pre.food
           /\ state.score = pre.score
           /\ state.tick = pre.tick

\* A step on a terminal state whose head could have moved to a free board cell.
C2_Witness ==
    /\ call.op = "step"
    /\ pre.isGameOver
    /\ state.isGameOver
    /\ OnBoard(Candidate(pre))
    /\ Candidate(pre) \notin Cells(pre.snake)

(***************************************************************************)
(* C3: changeDirection(state, d) keeps direction when d is the exact       *)
(* opposite of the current direction and otherwise sets direction to d,    *)
(* also when d is the current direction and when the game is over.         *)
(***************************************************************************)
C3_ChangeDirection ==
    call.op = "changeDirection"
        => state.direction =
              IF call.dir = Reverse(pre.direction) THEN pre.direction ELSE call.dir

\* A turn accepted on a terminal state.
C3_Witness ==
    /\ call.op = "changeDirection"
    /\ pre.isGameOver
    /\ call.dir # pre.direction
    /\ state.direction = call.dir

(***************************************************************************)
(* C4: changeDirection, accepting or rejecting, never changes snake, food, *)
(* score, tick or isGameOver.                                              *)
(***************************************************************************)
C4_ChangeDirectionFrame ==
    call.op = "changeDirection"
        => /\ state.snake = pre.snake
           /\ state.food = pre.food
           /\ state.score = pre.score
           /\ state.tick = pre.tick
           /\ state.isGameOver = pre.isGameOver

\* A rejected turn on a snake that has already moved and eaten.
C4_Witness ==
    /\ call.op = "changeDirection"
    /\ call.dir = Reverse(pre.direction)
    /\ state.direction = pre.direction
    /\ pre.score > 0
    /\ ~pre.isGameOver

(***************************************************************************)
(* C5: with wrap disabled, a step from an active state whose head, moved   *)
(* one cell in direction, leaves [0, cols) x [0, rows) returns             *)
(* isGameOver = TRUE, whatever the snake length and the food.              *)
(***************************************************************************)
C5_WallIsFatal ==
    (ActiveStep /\ ~WrapEnabled /\ ~OnBoard(MovedHead(pre)))
        => state.isGameOver

\* A grown snake walks off the board while the food is the sentinel.
C5_Witness ==
    /\ ActiveStep
    /\ ~WrapEnabled
    /\ ~OnBoard(MovedHead(pre))
    /\ pre.food = Sentinel
    /\ pre.score > 0
    /\ state.isGameOver

(***************************************************************************)
(* C6: a fatal step (wall or self-collision) changes only isGameOver:      *)
(* snake, food, score, direction and tick are those of the input.          *)
(***************************************************************************)
C6_FatalStepFrame ==
    (ActiveStep /\ state.isGameOver)
        => /\ state.snake = pre.snake
           /\ state.food = pre.food
           /\ state.score = pre.score
           /\ state.direction = pre.direction
           /\ state.tick = pre.tick

\* A self-collision after the snake has moved: the candidate is on the board.
C6_Witness ==
    /\ ActiveStep
    /\ state.isGameOver
    /\ pre.tick > 0
    /\ OnBoard(Candidate(pre))
    /\ Candidate(pre) \in Cells(pre.snake)

(***************************************************************************)
(* C7: with wrap enabled, the candidate head of a step from an active      *)
(* state is on the board: the coordinate along the direction is            *)
(* (original +/- 1 + size) % size, the other one is unchanged; the step    *)
(* moves the head there, or ends the game because that cell is a snake     *)
(* cell, never because of a wall.                                          *)
(***************************************************************************)
C7_WrappedHead ==
    (ActiveStep /\ WrapEnabled)
        => LET h == pre.snake[1]
               v == Vec(pre.direction)
               expected ==
                   [x |-> IF v[1] # 0 THEN (h.x + v[1] + config.cols) % config.cols ELSE h.x,
                    y |-> IF v[2] # 0 THEN (h.y + v[2] + config.rows) % config.rows ELSE h.y]
           IN  /\ OnBoard(expected)
               /\ IF state.isGameOver
                  THEN expected \in Cells(pre.snake)
                  ELSE state.snake[1] = expected

\* The head leaves through the left or the top edge and enters on the other side.
C7_Witness ==
    /\ ActiveStep
    /\ WrapEnabled
    /\ pre.direction \in {"left", "up"}
    /\ ~OnBoard(MovedHead(pre))
    /\ ~state.isGameOver
    /\ state.snake[1] = Candidate(pre)
    /\ state.snake[1] # MovedHead(pre)

(***************************************************************************)
(* C8: a non-fatal step whose candidate head is the food adds 10 to score, *)
(* prepends the candidate head to the whole old snake, adds 1 to tick and, *)
(* unless the new snake covers the board, puts the food on a board cell    *)
(* that no cell of the new snake occupies.                                 *)
(***************************************************************************)
C8_Eating ==
    (ActiveStep /\ ~state.isGameOver /\ Candidate(pre) = pre.food)
        => /\ state.score = pre.score + 10
           /\ state.snake = <<Candidate(pre)>> \o pre.snake
           /\ Len(state.snake) = Len(pre.snake) + 1
           /\ state.tick = pre.tick + 1
           /\ \/ \A px \in 0..(config.cols - 1), py \in 0..(config.rows - 1) :
                     [x |-> px, y |-> py] \in Cells(state.snake)
              \/ OnBoard(state.food) /\ state.food \notin Cells(state.snake)

\* The snake eats and new food is placed.
C8_Witness ==
    /\ ActiveStep
    /\ ~state.isGameOver
    /\ Candidate(pre) = pre.food
    /\ state.snake[1] = pre.food
    /\ OnBoard(state.food)

(***************************************************************************)
(* C9: a non-fatal step whose candidate head is not the food keeps the     *)
(* snake length (candidate head, then the old snake without its last       *)
(* cell), leaves food and score alone and adds exactly 1 to tick.          *)
(***************************************************************************)
C9_Moving ==
    (ActiveStep /\ ~state.isGameOver /\ Candidate(pre) # pre.food)
        => /\ state.snake = <<Candidate(pre)>> \o Front(pre.snake)
           /\ Len(state.snake) = Len(pre.snake)
           /\ state.food = pre.food
           /\ state.score = pre.score
           /\ state.tick = pre.tick + 1

\* A plain move of a snake that has eaten before.
C9_Witness ==
    /\ ActiveStep
    /\ ~state.isGameOver
    /\ Candidate(pre) # pre.food
    /\ pre.score > 0
    /\ state.tick = pre.tick + 1

(***************************************************************************)
(* C10: the self-collision rule.  A step whose candidate head is on the    *)
(* board ends the game exactly when that cell is a snake cell that stays:  *)
(* when the step does not eat, any snake cell but the last (moving into    *)
(* the cell the tail vacates is a normal move); when the step eats, any    *)
(* snake cell, the tail included.                                          *)
(***************************************************************************)
C10_SelfCollision ==
    (ActiveStep /\ OnBoard(Candidate(pre)))
        => (state.isGameOver <=>
              Candidate(pre) \in Cells(IF Candidate(pre) = pre.food
                                       THEN pre.snake
                                       ELSE Front(pre.snake)))

\* The food lies on the tail cell and the head moves onto it: the game ends.
C10_Witness ==
    /\ ActiveStep
    /\ Candidate(pre) = pre.food
    /\ Candidate(pre) = pre.snake[Len(pre.snake)]
    /\ state.isGameOver

\* The head moves into the cell the tail vacates and the game goes on.
C10_TailChase ==
    /\ ActiveStep
    /\ Candidate(pre) # pre.food
    /\ Candidate(pre) = pre.snake[Len(pre.snake)]
    /\ ~state.isGameOver
    /\ state.snake[1] = pre.snake[Len(pre.snake)]

(***************************************************************************)
(* C11: on the 12 x 12 board without wrap, with initialLength 5, the loop  *)
(* down, step; left, step; up, step ends the game on its third step and on *)
(* no earlier one, whatever food is drawn on the way: the third step's     *)
(* candidate head is (5,6), the second segment of the initial snake, which *)
(* is still a snake cell.                                                  *)
(***************************************************************************)
C11_TightLoop ==
    call.op = "step"
        => IF pre.tick = 2
           THEN /\ pre.direction = "up"
                /\ Candidate(pre) = [x |-> 5, y |-> 6]
                /\ [x |-> 5, y |-> 6] \in Cells(pre.snake)
                /\ state.isGameOver
           ELSE ~state.isGameOver

\* The third step of the loop, after the snake ate on the way.
C11_Witness ==
    /\ call.op = "step"
    /\ pre.tick = 2
    /\ pre.score > 0
    /\ state.isGameOver

(***************************************************************************)
(* C12: createInitialState returns a snake of max(3, initialLength) cells  *)
(* (4 when initialLength is absent), cell i at (floor(cols/2) - i,         *)
(* floor(rows/2)), with direction right, score 0, tick 0 and isGameOver    *)
(* false.  On the 12 x 12 board with initialLength 5 the head is (6,6),    *)
(* and one step gives head (7,6), length 5, tick 1 and score 0 unless the  *)
(* food is at (7,6).                                                       *)
(***************************************************************************)
Half(n) == CHOOSE k \in 0..n : 2 * k <= n /\ n < 2 * k + 2

C12_InitialState ==
    /\ call.op = "createInitialState"
         => LET n == IF "initialLength" \in DOMAIN config
                     THEN (IF config.initialLength > 3 THEN config.initialLength ELSE 3)
                     ELSE 4
            IN  /\ Len(state.snake) = n
                /\ \A i \in 0..(n - 1) :
                      state.snake[i + 1] =
                          [x |-> Half(config.cols) - i, y |-> Half(config.rows)]
                /\ state.direction = "right"
                /\ state.score = 0
                /\ state.tick = 0
                /\ ~state.isGameOver
    /\ (config.cols = 12 /\ config.rows = 12 /\ "initialLength" \in DOMAIN config
           /\ config.initialLength = 5)
         => /\ call.op = "createInitialState" => state.snake[1] = [x |-> 6, y |-> 6]
            /\ (call.op = "step" /\ pre.tick = 0 /\ pre.food # [x |-> 7, y |-> 6])
                 => /\ state.snake[1] = [x |-> 7, y |-> 6]
                    /\ Len(state.snake) = 5
                    /\ state.tick = 1
                    /\ state.score = 0

\* The first step on the 12 x 12 board, the food elsewhere.
C12_Witness ==
    /\ config.cols = 12
    /\ call.op = "step"
    /\ pre.tick = 0
    /\ pre.snake[1] = [x |-> 6, y |-> 6]
    /\ pre.food # [x |-> 7, y |-> 6]
    /\ state.snake[1] = [x |-> 7, y |-> 6]
    /\ state.tick = 1

(***************************************************************************)
(* C13: in every state reachable from createInitialState no two snake      *)
(* cells have the same position.                                           *)
(***************************************************************************)
C13_DistinctCells ==
    \A i \in 1..Len(state.snake) :
        \A j \in (i + 1)..Len(state.snake) : state.snake[i] # state.snake[j]

\* The head has just moved into the cell the tail left.
C13_Witness ==
    /\ ActiveStep
    /\ ~state.isGameOver
    /\ state.snake[1] = pre.snake[Len(pre.snake)]
    /\ Cardinality(Cells(state.snake)) = Len(state.snake)

(***************************************************************************)
(* C14: in every reachable state the snake has at least 3 cells, and no    *)
(* call makes it shorter.                                                  *)
(***************************************************************************)
C14_LengthAtLeast3 ==
    /\ Len(state.snake) >= 3
    /\ Len(state.snake) >= Len(pre.snake)

\* A snake of the minimal length 3 has moved without eating, then eaten.
C14_Witness ==
    /\ ActiveStep
    /\ Len(pre.snake) = 3
    /\ pre.tick > 0
    /\ Len(state.snake) = 4

(***************************************************************************)
(* C15: step is deterministic: the same config and state always give the   *)
(* same next state in every field, also on a tick that eats.               *)
(* The code violates it on a tick that eats while two or more cells are    *)
(* free: the new food is freeCells[floor(Math.random() * length)].         *)
(***************************************************************************)
C15_StepDeterministic ==
    \A s1, s2 \in step(config, state) : s1 = s2

(***************************************************************************)
(* C15 as amended: every result step could have returned for the call just *)
(* made agrees with the one it did return on snake, direction, score,      *)
(* isGameOver and tick; the two differ in food only on a tick that eats,   *)
(* and then both foods are board cells off the new snake.                  *)
(***************************************************************************)
C15_DeterministicButFood ==
    call.op = "step" =>
        \A other \in step(config, pre) :
            /\ other.snake = state.snake
            /\ other.direction = state.direction
            /\ other.score = state.score
            /\ other.isGameOver = state.isGameOver
            /\ other.tick = state.tick
            /\ other.food # state.food
                 => /\ ~pre.isGameOver
                    /\ Candidate(pre) = pre.food
                    /\ state.snake[1] = pre.food
                    /\ OnBoard(state.food) /\ state.food \notin Cells(state.snake)
                    /\ OnBoard(other.food) /\ other.food \notin Cells(other.snake)

\* An eating step was taken where step had several results to choose from.
C15_Witness ==
    /\ ActiveStep
    /\ Candidate(pre) = pre.food
    /\ ~state.isGameOver
    /\ \E s \in step(config, pre) : s.food # state.food

(***************************************************************************)
(* C16: when several changeDirection calls come between two steps, the    *)
(* step moves the head in the direction of the last call that was          *)
(* accepted (a call is rejected when it asks for the reverse of the        *)
(* direction held at that moment); with no accepted call it moves in the   *)
(* direction held before.                                                  *)
(***************************************************************************)
RECURSIVE HeldAfter(_, _)
HeldAfter(d, turns) ==
    IF turns = <<>> THEN d
    ELSE HeldAfter(IF Head(turns) = Reverse(d) THEN d ELSE Head(turns), Tail(turns))

C16_LastTurnApplies ==
    (call.op = "step" /\ ~pre.isGameOver)
        => LET d == HeldAfter(call.from, call.turns)
               target == [x |-> pre.snake[1].x + Vec(d)[1],
                          y |-> pre.snake[1].y + Vec(d)[2]]
           IN  /\ pre.direction = d
               /\ ~state.isGameOver
                    => state.snake[1] =
                          IF WrapEnabled
                          THEN [x |-> (target.x + config.cols) % config.cols,
                                y |-> (target.y + config.rows) % config.rows]
                          ELSE target

\* Three calls in one interval: the first is accepted and overridden later.
C16_Witness ==
    /\ call.op = "step"
    /\ ~pre.isGameOver
    /\ ~state.isGameOver
    /\ Len(call.turns) = 3
    /\ call.turns[1] \notin {call.from, Reverse(call.from)}
    /\ \E i \in 2..3 : call.turns[i] = Reverse(HeldAfter(call.from, SubSeq(call.turns, 1, i - 1)))
    /\ HeldAfter(call.from, call.turns) # call.turns[1]
    /\ state.snake[1] # pre.snake[1]

(***************************************************************************)
(* C17: spawnFood(config, snake) returns a cell of the cols x rows grid    *)
(* that is not in the snake whenever there is one, every such cell is a    *)
(* possible result, and it returns (-1,-1) exactly when the snake occupies *)
(* every cell of the grid.  Checked for the snake of every reachable       *)
(* state.                                                                  *)
(***************************************************************************)
Board ==
    {[x |-> px, y |-> py] : px \in 0..(config.cols - 1), py \in 0..(config.rows - 1)}

Free(snake) == Board \ Cells(snake)

C17_SpawnFood ==
    call.op # "changeDirection" =>
        LET result == spawnFood(config, state.snake)
            free == Free(state.snake)
        IN  /\ free # {} => result = free
            /\ free = {} => result = {Sentinel}
            /\ Sentinel \in result <=> Board \subseteq Cells(state.snake)

\* A snake that grew until it covers the board; spawnFood just returned (-1,-1).
C17_Witness ==
    /\ ActiveStep
    /\ Candidate(pre) = pre.food
    /\ Cardinality(Free(pre.snake)) = 1
    /\ Free(state.snake) = {}
    /\ state.food = Sentinel

(***************************************************************************)
(* C18: when a single board cell is free and it is the food, a step that   *)
(* eats it returns a snake that fills the board, food (-1,-1), score + 10  *)
(* and isGameOver still false.                                             *)
(***************************************************************************)
C18_LastCell ==
    (ActiveStep /\ Free(pre.snake) = {pre.food} /\ Candidate(pre) = pre.food)
        => /\ Board \subseteq Cells(state.snake)
           /\ state.snake[1] = pre.food
           /\ state.food = Sentinel
           /\ state.score = pre.score + 10
           /\ ~state.isGameOver

\* The last free cell is eaten by a snake that lies on the board entirely.
C18_Witness ==
    /\ ActiveStep
    /\ Free(pre.snake) = {pre.food}
    /\ Candidate(pre) = pre.food
    /\ Cells(state.snake) = Board
    /\ state.food = Sentinel

(***************************************************************************)
(* C19: once food is (-1,-1) it is never eaten: whatever step and          *)
(* changeDirection calls follow, in either wrap mode, food stays (-1,-1)   *)
(* and score and snake length stay as they are.                            *)
(***************************************************************************)
C19_SentinelStays ==
    (call.op \in {"step", "changeDirection"} /\ pre.food = Sentinel)
        => /\ state.food = Sentinel
           /\ state.score = pre.score
           /\ Len(state.snake) = Len(pre.snake)

\* The snake keeps moving on a full board, the food being (-1,-1).
C19_Witness ==
    /\ ActiveStep
    /\ pre.food = Sentinel
    /\ ~state.isGameOver
    /\ state.tick = pre.tick + 1
    /\ state.food = Sentinel

(***************************************************************************)
(* C20: in every reachable state food is (-1,-1) or a cell of the board    *)
(* that no snake cell occupies.                                            *)
(***************************************************************************)
C20_FoodIsFree ==
    \/ state.food = Sentinel
    \/ OnBoard(state.food) /\ state.food \notin Cells(state.snake)

\* Food drawn again after the snake ate and then moved on.
C20_Witness ==
    /\ ActiveStep
    /\ pre.score > 0
    /\ Candidate(pre) # pre.food
    /\ ~state.isGameOver
    /\ OnBoard(state.food)
    /\ state.food \notin Cells(state.snake)

(***************************************************************************)
(* C21: a step whose candidate head is the food cell never ends the game:  *)
(* the step succeeds, the head takes the food cell and the snake grows by  *)
(* one.                                                                    *)
(***************************************************************************)
C21_EatingNeverFatal ==
    (ActiveStep /\ Candidate(pre) = pre.food)
        => /\ ~state.isGameOver
           /\ state.snake[1] = pre.food
           /\ Len(state.snake) = Len(pre.snake) + 1

\* The snake ate right after a turn, its body lying beside the food cell.
C21_Witness ==
    /\ ActiveStep
    /\ Candidate(pre) = pre.food
    /\ pre.direction # "right"
    /\ ~state.isGameOver
    /\ Len(state.snake) = Len(pre.snake) + 1

(***************************************************************************)
(* C22: in every reachable state, in both wrap modes and whatever the      *)
(* initial length, the head lies inside [0, cols) x [0, rows).             *)
(***************************************************************************)
C22_HeadOnBoard ==
    /\ state.snake[1].x >= 0 /\ state.snake[1].x < config.cols
    /\ state.snake[1].y >= 0 /\ state.snake[1].y < config.rows

\* A game that ended at the top or bottom wall, the head still on the board.
C22_Witness ==
    /\ ActiveStep
    /\ ~WrapEnabled
    /\ state.isGameOver
    /\ MovedHead(pre).y \notin 0..(config.rows - 1)
    /\ OnBoard(state.snake[1])

(***************************************************************************)
(* C23: when the initial snake fits on the board, floor(cols/2) being at   *)
(* least the effective initial length minus one, every snake cell of every *)
(* reachable state lies on the board and the snake is never longer than    *)
(* cols * rows.  A state that changeDirection returned holds the snake of   *)
(* the state it was given, where the property was checked.                 *)
(***************************************************************************)
InitialLength ==
    IF "initialLength" \in DOMAIN config
    THEN (IF config.initialLength > 3 THEN config.initialLength ELSE 3)
    ELSE 4

Fits == Half(config.cols) >= InitialLength - 1

C23_FittingSnakeOnBoard ==
    Fits => IF call.op = "changeDirection"
            THEN state.snake = pre.snake
            ELSE /\ \A i \in 1..Len(state.snake) : OnBoard(state.snake[i])
                 /\ Len(state.snake) <= config.cols * config.rows

\* A fitting snake that grew until it is as long as the board has cells.
C23_Witness ==
    /\ Fits
    /\ ActiveStep
    /\ Len(state.snake) = Len(pre.snake) + 1
    /\ Len(state.snake) = config.cols * config.rows
    /\ \A i \in 1..Len(state.snake) : OnBoard(state.snake[i])

(***************************************************************************)
(* C24: in every reachable state score is 10 times the number of cells the *)
(* snake has grown since createInitialState; score is a non-negative       *)
(* multiple of 10 and no call decreases it.                                *)
(***************************************************************************)
C24_Score ==
    /\ state.score = 10 * (Len(state.snake) - InitialLength)
    /\ state.score >= 0
    /\ state.score % 10 = 0
    /\ state.score >= pre.score

\* Two foods eaten: the score is 20 and the snake two cells longer.
C24_Witness ==
    /\ ActiveStep
    /\ pre.score = 10
    /\ state.score = 20
    /\ Len(state.snake) = InitialLength + 2

(***************************************************************************)
(* C25: in every reachable state the snake is a connected path: two        *)
(* consecutive cells differ by one along one axis and not at all along the *)
(* other, the differences being taken modulo the axis size when wrap is    *)
(* enabled.  A state that changeDirection returned holds the snake of the  *)
(* state it was given, where the property was checked.                     *)
(***************************************************************************)
OneApart(a, b, size) ==
    IF WrapEnabled
    THEN (a - b) % size = 1 % size \/ (b - a) % size = 1 % size
    ELSE a - b = 1 \/ b - a = 1

NotApart(a, b, size) ==
    IF WrapEnabled THEN (a - b) % size = 0 ELSE a = b

Neighbours(p, q) ==
    \/ OneApart(p.x, q.x, config.cols) /\ NotApart(p.y, q.y, config.rows)
    \/ NotApart(p.x, q.x, config.cols) /\ OneApart(p.y, q.y, config.rows)

C25_ConnectedPath ==
    IF call.op = "changeDirection"
    THEN state.snake = pre.snake
    ELSE \A i \in 1..(Len(state.snake) - 1) :
            Neighbours(state.snake[i], state.snake[i + 1])

\* The head crossed the edge of a wrapping board: it and its neck are
\* neighbours only modulo the axis size.
C25_Witness ==
    /\ ActiveStep
    /\ WrapEnabled
    /\ ~state.isGameOver
    /\ config.cols >= 3 /\ config.rows >= 3
    /\ ~OnBoard(MovedHead(pre))
    /\ state.snake[2] = pre.snake[1]
    /\ Neighbours(state.snake[1], state.snake[2])

(***************************************************************************)
(* C26: in the host no tick is applied while the game is paused: from a    *)
(* pause until the next resume or restart the interval's step is not       *)
(* called, and snake, food, score, tick and isGameOver stay as they are.   *)
(* The code violates it twice.  The interval is cleared by the cleanup of  *)
(* the game loop effect, which React runs after the render that shows the  *)
(* pause: an interval that fires in between still applies its step.  And   *)
(* a change of the cols or rows prop replaces the state by a new initial   *)
(* state while isPaused stays true.                                        *)
(***************************************************************************)
C26_NoTickWhilePaused ==
    /\ [](~(call.op = "step" /\ call.paused))
    /\ [][(isPaused /\ isPaused')
            => /\ state'.snake = state.snake
               /\ state'.food = state.food
               /\ state'.score = state.score
               /\ state'.tick = state.tick
               /\ state'.isGameOver = state.isGameOver]_vars

(***************************************************************************)
(* C27: a restart from any state, a game-over state and a paused game      *)
(* included, leaves a fresh result of createInitialState for the current   *)
(* props (the initial snake of 5 cells, food on a free cell, direction     *)
(* right, score 0, tick 0, not over) and isPaused false, with the interval *)
(* set or the effect that sets it pending; and ticking starts again: a     *)
(* step of the interval follows unless the game is paused again first.     *)
(***************************************************************************)
C27_Fresh ==
    /\ Len(state.snake) = 5
    /\ \A i \in 0..4 :
          state.snake[i + 1] = [x |-> Half(config.cols) - i, y |-> Half(config.rows)]
    /\ OnBoard(state.food) /\ state.food \notin Cells(state.snake)
    /\ state.direction = "right"
    /\ state.score = 0
    /\ state.tick = 0
    /\ ~state.isGameOver

C27_Restart ==
    /\ [](call.op = "restart"
            => /\ C27_Fresh
               /\ ~isPaused
               /\ intervalRef = "armed" \/ effectPending)
    /\ (call.op = "restart") ~> (call.op = "step" \/ isPaused)

\* A paused game that was over has just been restarted.
C27_Witness ==
    /\ call.op = "restart"
    /\ call.paused
    /\ call.over
    /\ intervalRef = "null"
    /\ ~isPaused
    /\ state.tick = 0

====
